---- MODULE Spec2Model ----
(***************************************************************************)
(* Model of the download queue (services/download_queue.py), the           *)
(* downloader's progress reporting (services/ytdlp.py), the one-way        *)
(* playlist reconciliation and the sync of all playlists                   *)
(* (services/youtube_sync_simple.py, routers/youtube_simple.py) and the    *)
(* shutdown of the application (main.py).                                  *)
(*                                                                         *)
(* All coroutines run on one asyncio event loop, so the code between two   *)
(* awaits is one atomic action of the model.                               *)
(***************************************************************************)
EXTENDS Integers, Sequences, FiniteSets, TLC

(* ---------------------------- bounds ----------------------------------- *)
MaxJobs == 2          \* number of distinct job ids uuid4() can hand out
MaxTasks == 2         \* number of start_worker() coroutines ever created

MaxPlaylists == 2     \* number of playlists that can be added
MaxSyncTasks == 2     \* number of sync_playlist_items() background tasks ever created
MaxEntries == 2       \* length of the "entries" list yt-dlp returns for a playlist
MaxAllTasks == 2   \* number of POST /sync/all requests ever made
MaxRuns == 3       \* number of POST /run requests ever made

JobIds == 1..MaxJobs
Tasks == 1..MaxTasks
PlaylistIds == 1..MaxPlaylists
SyncTasks == 1..MaxSyncTasks
AllTasks == 1..MaxAllTasks

(* ------------------------- program constants --------------------------- *)
None == "None"      \* Python None in a string-valued field or argument
NoJob == 0            \* Python None where a job id is expected
NoProgress == -1      \* Python None for the progress argument

PENDING == "pending"
ANALYZING == "analyzing"
DOWNLOADING == "downloading"
COMPLETED == "completed"
FAILED == "failed"
CANCELLED == "cancelled"

DownloadStatus == {PENDING, ANALYZING, DOWNLOADING, COMPLETED, FAILED, CANCELLED}

MergerPct == 99       \* progress_callback(99.0, "Processing")
DonePct == 100        \* progress_callback(100.0, "Completed"), progress=100.0
DefaultProgress == 0  \* Download.progress column default

\* percentages yt-dlp prints on "[download]" lines; a download of two
\* formats (bestvideo+bestaudio) restarts the count for the second file
ParsedPcts == {40, 100}

\* inputs of the HTTP API
ApiUrls == {"X"}
ApiMediaTypes == {"movie"}
ApiMetadata == {[title |-> "X"]}
\* results of the external downloader
OutPaths == {"/out.mp3"}
ErrMsgs == {"disk full"}

(* ------------------------ playlist constants --------------------------- *)
NoPlaylist == 0       \* no playlist_id yet
NoTime == -1          \* last_synced_at is NULL
AUDIO == "audio"
VIDEO == "video"
DownloadType == {AUDIO, VIDEO}
MUSIC == "music"
MOVIE == "movie"
ITEM_PENDING == "pending"       \* YouTubeItemStatus.PENDING
ITEM_COMPLETED == "completed"   \* YouTubeItemStatus.COMPLETED
ITEM_FAILED == "failed"         \* YouTubeItemStatus.FAILED
PlaylistTitle == "PL"           \* title stored by add_playlist

\* entries of yt-dlp's --flat-playlist JSON: a video with an uploader and a
\* video without uploader and channel
RawEntries ==
    {[id |-> "a", title |-> "Ta", uploader |-> "Ua"],
     [id |-> "b", title |-> "Tb", uploader |-> None]}
VideoIds == {e.id : e \in RawEntries} \ {None}
RawLists == UNION {[1..n -> RawEntries] : n \in 0..MaxEntries}
ItemIds == 1..(MaxPlaylists * Cardinality(VideoIds))

\* YouTubeSyncSimple.__init__
IdleSync ==
    [is_running |-> FALSE, current_playlist_id |-> NoPlaylist,
     current_playlist_title |-> None]

NoAllRet == [a |-> 0, out |-> "none"]
NoExtract == [pid |-> NoPlaylist, ok |-> FALSE, unchanged |-> FALSE]
RunTasks == 1..MaxRuns
NoRun == [at |-> "new", resync |-> FALSE]
NoObs == [fresh |-> {}, twice |-> {}, sound |-> {}, db_error |-> FALSE]
NoList == [done |-> FALSE, list |-> <<>>]

(* ------------------------------ state ---------------------------------- *)
VARIABLES
    jobs,              \* the downloads table: job id -> row
    now,               \* datetime.now(): a logical clock that add_job advances, so that
                       \* no two jobs have the same created_at
    processing,        \* DownloadQueueManager._processing
    current_job_id,    \* DownloadQueueManager._current_job_id
    pc,                \* position of each start_worker() coroutine
    job,               \* local variable job of each start_worker() coroutine
    ret,               \* outcome of the last step when it was a cancel_job call (its return
                       \* value) or the end of a download (its path or its error message),
                       \* NoRet after any other step
    playlists,         \* the youtube_playlists table: playlist id -> row
    items,             \* the youtube_playlist_items table: item id -> row
    spc,               \* position of each sync_playlist_items() background task
    sp,                \* argument playlist_id of each running background task
    last_extracted,    \* the latest extract_playlist_items call: for which playlist, whether it
                       \* returned, whether it returned the list of that playlist's latest
                       \* committed sync
    synced,            \* per playlist: the item list of its latest sync that committed
    fault,             \* whether a database call of the worker has raised
    lifespan,          \* "up" while the application serves, "down" after its shutdown
    youtube_sync_simple,  \* the global YouTubeSyncSimple instance: is_running,
                       \* current_playlist_id, current_playlist_title
    apc,               \* position of each POST /sync/all request and of the
                       \* sync_all_playlists() background task it adds
    aq,                \* per sync_all_playlists() task: the playlists it still has to sync,
                       \* the one being synced first
    aret,              \* how the latest request or task of a sync of all playlists ended
    sync_in_progress,  \* _sync_in_progress of routers/sync.py
    rpc,               \* per POST /run request: where it and its background task are, and
                       \* the resync flag the task was created with
    obs                \* the latest run of the item loop: the videos of the new items, those
                       \* listed more than once, those whose own rows could be created,
                       \* and whether the database raised an error

rvars == <<sync_in_progress, rpc>>
xvars == <<fault, lifespan, rvars>>
qvars == <<processing, current_job_id, pc, job, ret, xvars>>
avars == <<youtube_sync_simple, apc, aq, aret>>
svars == <<playlists, items, spc, sp, last_extracted, synced, obs, avars>>
vars == <<jobs, now, processing, current_job_id, pc, job, ret,
          playlists, items, spc, sp, last_extracted, synced, fault, lifespan,
          youtube_sync_simple, apc, aq, aret, obs, sync_in_progress, rpc>>

NoRet == [op |-> "none"]

(* --------------------------- JobStore ---------------------------------- *)
\* Download(...) row built by add_job
DownloadRow(url, media_type, metadata, created_at) ==
    [url |-> url, media_type |-> media_type, metadata |-> metadata, status |-> PENDING,
     progress |-> DefaultProgress, error |-> None, output_path |-> None,
     created_at |-> created_at, started_at |-> None, completed_at |-> None]

\* add_job that adds the row to a session nobody commits
add_job_uncommitted(js, id, url, media_type, metadata, created_at) == js

\* add_job with session=None: the row is committed at once
add_job(js, id, url, media_type, metadata, created_at) ==
    [k \in DOMAIN js \cup {id} |->
        IF k = id THEN DownloadRow(url, media_type, metadata, created_at) ELSE js[k]]

\* an update that inserts a row when there is none with this id
update_job_upsert(js, id, status, progress, error, output_path) ==
    IF id \in DOMAIN js THEN js
    ELSE [k \in DOMAIN js \cup {id} |->
            IF k = id
            THEN [DownloadRow(None, None, None, NoTime) EXCEPT
                     !.status = IF status # None THEN status ELSE @]
            ELSE js[k]]

\* an update that clears the url of the row together with a new status
update_job_retarget(js, id, status, progress, error, output_path) ==
    IF id \notin DOMAIN js \/ status = None THEN js
    ELSE [js EXCEPT ![id].status = status, ![id].url = None]

\* update_job: applies the given (non-None) fields; silent when id is absent
update_job(js, id, status, progress, error, output_path) ==
    IF id \notin DOMAIN js THEN js
    ELSE LET d0 == js[id]
             d1 == IF status # None
                   THEN [d0 EXCEPT !.status = status,
                            !.started_at = IF status = DOWNLOADING
                                           THEN "set" ELSE @,
                            !.completed_at = IF status \in {COMPLETED, FAILED}
                                             THEN "set" ELSE @]
                   ELSE d0
             d2 == IF progress # NoProgress THEN [d1 EXCEPT !.progress = progress] ELSE d1
             d3 == IF error # None THEN [d2 EXCEPT !.error = error] ELSE d2
             d4 == IF output_path # None
                   THEN [d3 EXCEPT !.output_path = output_path] ELSE d3
         IN [js EXCEPT ![id] = d4]

\* Download.to_pydantic: the job as the API hands it out
to_pydantic(id, row) ==
    [id |-> id, url |-> row.url, status |-> row.status,
     progress |-> IF row.progress = NoProgress THEN 0 ELSE row.progress,
     error |-> row.error, output_path |-> row.output_path]

\* get_job: the job with this id, None when there is no such row
NoJobFound == [id |-> NoJob]
get_job(js, id) == IF id \in DOMAIN js THEN to_pydantic(id, js[id]) ELSE NoJobFound

\* a selection that does not look at the status of the rows
PendingIds_any_status(js) == DOMAIN js

\* a selection that offers the failed jobs again
PendingIds_or_failed(js) == {k \in DOMAIN js : js[k].status \in {PENDING, FAILED}}

\* rows matching WHERE status = 'pending'
PendingIds(js) == {k \in DOMAIN js : js[k].status = PENDING}

\* a query that finds no pending row
get_next_pending_none(js) == NoJob

\* get_next_pending with the ordering reversed (ORDER BY created_at DESC)
get_next_pending_newest(js) ==
    IF PendingIds(js) = {} THEN NoJob
    ELSE CHOOSE k \in PendingIds(js) :
            \A m \in PendingIds(js) : js[k].created_at >= js[m].created_at

\* get_next_pending: ORDER BY created_at ASC LIMIT 1 over the pending rows
get_next_pending(js) ==
    IF PendingIds(js) = {} THEN NoJob
    ELSE CHOOSE k \in PendingIds(js) :
            \A m \in PendingIds(js) : js[k].created_at <= js[m].created_at

\* the status test of cancel_job without CANCELLED
CancelRefused_only_completed(status) == status \in {COMPLETED}

\* the status test of cancel_job without COMPLETED
CancelRefused_only_cancelled(status) == status \in {CANCELLED}

\* the status test of cancel_job
CancelRefused(status) == status \in {COMPLETED, CANCELLED}

(* ------------------------------ Init ----------------------------------- *)
Init ==
    /\ jobs = <<>>
    /\ now = 0
    /\ processing = FALSE
    /\ current_job_id = NoJob
    /\ pc = [t \in Tasks |-> "new"]
    /\ job = [t \in Tasks |-> NoJob]
    /\ ret = NoRet
    /\ playlists = <<>>
    /\ items = <<>>
    /\ spc = [s \in SyncTasks |-> "new"]
    /\ sp = [s \in SyncTasks |-> NoPlaylist]
    /\ last_extracted = NoExtract
    /\ synced = [p \in PlaylistIds |-> NoList]
    /\ fault = FALSE
    /\ lifespan = "up"
    /\ youtube_sync_simple = IdleSync
    /\ apc = [a \in AllTasks |-> "new"]
    /\ aq = [a \in AllTasks |-> <<>>]
    /\ aret = NoAllRet
    /\ obs = NoObs
    /\ sync_in_progress = FALSE
    /\ rpc = [r \in RunTasks |-> NoRun]

(* ----------------------------- API calls ------------------------------- *)
\* POST /download -> add_job; the id is a new uuid4, which no worker holds;
\* at most MaxJobs jobs are ever created
AddJob(id, url, media_type, metadata) ==
    /\ id \in JobIds \ DOMAIN jobs
    /\ \A t \in Tasks : job[t] # id
    /\ now < MaxJobs
    /\ jobs' = add_job(jobs, id, url, media_type, metadata, now)
    /\ now' = now + 1
    /\ ret' = NoRet
    /\ UNCHANGED <<processing, current_job_id, pc, job, svars, xvars>>

\* cancel_job
CancelJob(id) ==
    /\ id \in JobIds
    /\ IF id \notin DOMAIN jobs
       THEN /\ ret' = [op |-> "cancel_job", id |-> id, val |-> FALSE]
            /\ UNCHANGED jobs
       ELSE IF CancelRefused(jobs[id].status)
       THEN /\ ret' = [op |-> "cancel_job", id |-> id, val |-> FALSE]
            /\ UNCHANGED jobs
       ELSE /\ jobs' = update_job(jobs, id, CANCELLED, NoProgress, None, None)
            /\ ret' = [op |-> "cancel_job", id |-> id, val |-> TRUE]
    /\ UNCHANGED <<now, processing, current_job_id, pc, job, svars, xvars>>

(* ------------------------------ worker --------------------------------- *)
\* start_worker without its guard
WorkerAlreadyRunning_unguarded == FALSE

\* the guard of start_worker: a second call returns while a loop runs
WorkerAlreadyRunning == processing

\* start_worker up to the first evaluation of the loop condition; the
\* coroutines are numbered in the order in which they are created
StartWorker(t) ==
    /\ pc[t] = "new"
    /\ \A u \in Tasks : u < t => pc[u] # "new"
    /\ IF WorkerAlreadyRunning
       THEN /\ pc' = [pc EXCEPT ![t] = "returned"]
            /\ UNCHANGED processing
       ELSE /\ processing' = TRUE
            /\ pc' = [pc EXCEPT ![t] = "loop"]
    /\ ret' = NoRet
    /\ UNCHANGED <<jobs, now, current_job_id, job, svars, xvars>>

\* one pass of "while self._processing": get_next_pending, then either the
\* start of process_job (up to the await inside download) or the sleep
WorkerPoll(t) ==
    /\ pc[t] = "loop"
    /\ processing
    /\ LET next == get_next_pending(jobs) IN
       IF next # NoJob
       THEN /\ job' = [job EXCEPT ![t] = next]
            /\ current_job_id' = next
            /\ jobs' = update_job(jobs, next, DOWNLOADING, NoProgress, None, None)
            /\ pc' = [pc EXCEPT ![t] = "download"]
       ELSE /\ pc' = [pc EXCEPT ![t] = "sleep"]
            /\ UNCHANGED <<jobs, current_job_id, job>>
    /\ ret' = NoRet
    /\ UNCHANGED <<now, processing, svars, xvars>>

\* asyncio.sleep(2) returns
WorkerWake(t) ==
    /\ pc[t] = "sleep"
    /\ pc' = [pc EXCEPT ![t] = "loop"]
    /\ ret' = NoRet
    /\ UNCHANGED <<jobs, now, processing, current_job_id, job, svars, xvars>>

\* a worker that records the completion with the progress of the merge step
CompletedPct_merger == MergerPct

\* progress=100.0 written together with status=COMPLETED
CompletedPct == 100

\* the value handed to progress_callback for one line of yt-dlp output
LinePcts == ParsedPcts \cup {MergerPct}

\* download(): one output line that reports progress
DownloadProgress(t, p) ==
    /\ pc[t] = "download"
    /\ p \in LinePcts
    /\ jobs' = update_job(jobs, job[t], None, p, None, None)
    /\ ret' = NoRet
    /\ UNCHANGED <<now, processing, current_job_id, pc, job, svars, xvars>>

\* download() returns: progress_callback(100.0), then process_job records
\* the completion and its finally block runs
DownloadReturn(t, path) ==
    /\ pc[t] = "download"
    /\ path \in OutPaths
    /\ LET j1 == update_job(jobs, job[t], None, DonePct, None, None)
       IN jobs' = update_job(j1, job[t], COMPLETED, CompletedPct, None, path)
    /\ current_job_id' = NoJob
    /\ pc' = [pc EXCEPT ![t] = "loop"]
    /\ ret' = [op |-> "download", id |-> job[t], val |-> path]
    /\ UNCHANGED <<now, processing, job, svars, xvars>>

\* process_job without its except block: the exception leaves the loop
AfterJobFailure_propagates == "exited"

\* where the worker coroutine goes after process_job caught an exception
AfterJobFailure == "loop"

\* an except block that records the failure without its message
job_error_dropped(msg) == None

\* error=str(e): the message of the exception the download raised
job_error(msg) == msg

\* download() raises (non-zero return code): the except block of process_job
DownloadRaise(t, msg) ==
    /\ pc[t] = "download"
    /\ msg \in ErrMsgs
    /\ jobs' = update_job(jobs, job[t], FAILED, NoProgress, job_error(msg), None)
    /\ current_job_id' = NoJob
    /\ pc' = [pc EXCEPT ![t] = AfterJobFailure]
    /\ ret' = [op |-> "download_error", id |-> job[t], val |-> msg]
    /\ UNCHANGED <<now, processing, job, svars, xvars>>

Next ==
    \/ \E id \in JobIds, url \in ApiUrls, mt \in ApiMediaTypes, md \in ApiMetadata :
            AddJob(id, url, mt, md)
    \/ \E id \in JobIds : CancelJob(id)
    \/ \E t \in Tasks : StartWorker(t)
    \/ \E t \in Tasks : WorkerPoll(t)
    \/ \E t \in Tasks : WorkerWake(t)
    \/ \E t \in Tasks, p \in LinePcts : DownloadProgress(t, p)
    \/ \E t \in Tasks, path \in OutPaths : DownloadReturn(t, path)
    \/ \E t \in Tasks, msg \in ErrMsgs : DownloadRaise(t, msg)

Spec == Init /\ [][Next]_vars

(* ------------------------- database errors ------------------------------ *)
\* str(e) of the exception a failing database call raises
StorageErr == "database is locked"

\* get_next_pending raises: the exception leaves "while self._processing"; it
\* is not a CancelledError, so only the finally block of start_worker runs
GetNextPendingRaises(t) ==
    /\ pc[t] = "loop"
    /\ processing
    /\ ~fault
    /\ fault' = TRUE
    /\ processing' = FALSE
    /\ pc' = [pc EXCEPT ![t] = "exited"]
    /\ ret' = NoRet
    /\ UNCHANGED <<jobs, now, current_job_id, job, svars, lifespan, rvars>>

\* update_job(status=DOWNLOADING) raises at the top of process_job: the except
\* block records the failure, the loop goes on
UpdateDownloadingRaises(t) ==
    /\ pc[t] = "loop"
    /\ processing
    /\ ~fault
    /\ LET next == get_next_pending(jobs) IN
         /\ next # NoJob
         /\ job' = [job EXCEPT ![t] = next]
         /\ jobs' = update_job(jobs, next, FAILED, NoProgress, job_error(StorageErr), None)
    /\ fault' = TRUE
    /\ ret' = NoRet
    /\ UNCHANGED <<now, processing, current_job_id, pc, svars, lifespan, rvars>>

\* update_job(progress=...) raises inside progress_callback: the exception
\* comes out of download() into the except block of process_job
UpdateProgressRaises(t) ==
    /\ pc[t] = "download"
    /\ ~fault
    /\ jobs' = update_job(jobs, job[t], FAILED, NoProgress, job_error(StorageErr), None)
    /\ current_job_id' = NoJob
    /\ pc' = [pc EXCEPT ![t] = "loop"]
    /\ fault' = TRUE
    /\ ret' = NoRet
    /\ UNCHANGED <<now, processing, job, svars, lifespan, rvars>>

\* download() returned and update_job(status=COMPLETED) raises: the except
\* block turns the finished download into a failure
UpdateCompletedRaises(t) ==
    /\ pc[t] = "download"
    /\ ~fault
    /\ LET j1 == update_job(jobs, job[t], None, DonePct, None, None)
       IN jobs' = update_job(j1, job[t], FAILED, NoProgress, job_error(StorageErr), None)
    /\ current_job_id' = NoJob
    /\ pc' = [pc EXCEPT ![t] = "loop"]
    /\ fault' = TRUE
    /\ ret' = NoRet
    /\ UNCHANGED <<now, processing, job, svars, lifespan, rvars>>

\* download() raised and update_job(status=FAILED) raises inside the except
\* block: the exception leaves process_job through its finally block and then
\* leaves the loop of start_worker
UpdateFailedRaises(t) ==
    /\ pc[t] = "download"
    /\ ~fault
    /\ current_job_id' = NoJob
    /\ processing' = FALSE
    /\ pc' = [pc EXCEPT ![t] = "exited"]
    /\ fault' = TRUE
    /\ ret' = NoRet
    /\ UNCHANGED <<jobs, now, job, svars, lifespan, rvars>>

NextStore ==
    \/ Next
    \/ \E t \in Tasks : GetNextPendingRaises(t)
    \/ \E t \in Tasks : UpdateDownloadingRaises(t)
    \/ \E t \in Tasks : UpdateProgressRaises(t)
    \/ \E t \in Tasks : UpdateCompletedRaises(t)
    \/ \E t \in Tasks : UpdateFailedRaises(t)

SpecStore == Init /\ [][NextStore]_vars

(* ------------------------------ shutdown -------------------------------- *)
\* the shutdown half of lifespan: stop_worker(), worker_task.cancel() and the
\* await of the task.  The CancelledError is thrown into the coroutine at the
\* await where it is suspended (asyncio.sleep or, inside process_job, the
\* download); "except Exception" in process_job does not catch it, the finally
\* blocks of process_job and start_worker run.  A task that has not run yet is
\* cancelled without running.
Shutdown ==
    /\ lifespan = "up"
    /\ lifespan' = "down"
    /\ processing' = FALSE
    /\ current_job_id' = NoJob
    /\ pc' = [t \in Tasks |-> IF pc[t] = "returned" THEN "returned" ELSE "exited"]
    /\ ret' = NoRet
    /\ UNCHANGED <<jobs, now, job, svars, fault, rvars>>

\* the application serves requests and runs its tasks until it shuts down
NextStop ==
    \/ lifespan = "up" /\ Next
    \/ Shutdown

SpecStop == Init /\ [][NextStop]_vars

\* the application is started again: a new process with a new
\* DownloadQueueManager (_processing False, _current_job_id None) on the same
\* database file.  No coroutine of the old process exists any more; the
\* lifespan of the new one creates the worker task, the next StartWorker.
Restart ==
    /\ lifespan = "down"
    /\ lifespan' = "up"
    /\ processing' = FALSE
    /\ current_job_id' = NoJob
    /\ pc' = [t \in Tasks |-> "new"]
    /\ job' = [t \in Tasks |-> NoJob]
    /\ ret' = NoRet
    /\ UNCHANGED <<jobs, now, svars, fault, rvars>>

\* the application runs, shuts down and is started again
NextRestart ==
    \/ NextStop
    \/ Restart

SpecRestart == Init /\ [][NextRestart]_vars

(* ----------------------------- delete_job ------------------------------- *)
\* delete_job: the row is deleted and True returned, False when there is none
DeleteJob(id) ==
    /\ id \in JobIds
    /\ IF id \in DOMAIN jobs
       THEN /\ jobs' = [k \in DOMAIN jobs \ {id} |-> jobs[k]]
            /\ ret' = [op |-> "delete_job", id |-> id, val |-> TRUE]
       ELSE /\ ret' = [op |-> "delete_job", id |-> id, val |-> FALSE]
            /\ UNCHANGED jobs
    /\ UNCHANGED <<now, processing, current_job_id, pc, job, svars, xvars>>

\* the queue with a caller of delete_job
NextDeleteJob ==
    \/ Next
    \/ \E id \in JobIds : DeleteJob(id)

SpecDeleteJob == Init /\ [][NextDeleteJob]_vars

(* ------------------- stop_worker without cancellation ------------------- *)
\* stop_worker(): the flag is cleared; the loop is not awaited nor cancelled.
\* The caller runs while every worker coroutine is suspended at an await (in
\* the sleep or inside download).
StopWorker ==
    /\ \A t \in Tasks : pc[t] # "loop"
    /\ processing' = FALSE
    /\ ret' = NoRet
    /\ UNCHANGED <<jobs, now, current_job_id, pc, job, svars, xvars>>

\* "while self._processing" finds the flag cleared: the loop ends and the
\* finally block of start_worker clears the flag
WorkerExit(t) ==
    /\ pc[t] = "loop"
    /\ ~processing
    /\ processing' = FALSE
    /\ pc' = [pc EXCEPT ![t] = "exited"]
    /\ ret' = NoRet
    /\ UNCHANGED <<jobs, now, current_job_id, job, svars, xvars>>

\* the queue with callers that start and stop the worker in any order
NextStartStop ==
    \/ Next
    \/ StopWorker
    \/ \E t \in Tasks : WorkerExit(t)

SpecStartStop == Init /\ [][NextStartStop]_vars

(* ------------------------- playlist reconciliation ---------------------- *)
\* extract_playlist_items: entries without id are skipped, position is the
\* index in the entries list
extract_playlist_items(raw) ==
    LET all == [i \in 1..Len(raw) |->
                  [video_id |-> raw[i].id, title |-> raw[i].title,
                   artist |-> raw[i].uploader, position |-> i - 1]]
        HasId(x) == x.video_id # None
    IN SelectSeq(all, HasId)

\* existing_video_ids: the video ids of the rows of this playlist
existing_video_ids(its, pid) ==
    {its[i].youtube_video_id : i \in {k \in DOMAIN its : its[k].playlist_id = pid}}

\* the new items taken from the last extracted item to the first
new_items_reversed(yt, existing) ==
    LET IsNew(x) == x.video_id \notin existing
        l == SelectSeq(yt, IsNew)
    IN [i \in 1..Len(l) |-> l[Len(l) + 1 - i]]

\* new_items: the extracted items whose video id is not among the existing ones
new_items(yt, existing) ==
    LET IsNew(x) == x.video_id \notin existing IN SelectSeq(yt, IsNew)

\* a row that does not take the position of the remote item
PlaylistItemRow_unpositioned(pid, item) ==
    [playlist_id |-> pid, youtube_video_id |-> item.video_id, title |-> item.title,
     artist |-> item.artist, position |-> 0,
     download_status |-> ITEM_PENDING, download_id |-> NoJob]

\* YouTubePlaylistItem(...) built for a new item
PlaylistItemRow(pid, item) ==
    [playlist_id |-> pid, youtube_video_id |-> item.video_id, title |-> item.title,
     artist |-> item.artist, position |-> item.position,
     download_status |-> ITEM_PENDING, download_id |-> NoJob]

\* a table without the unique index: flush accepts every row
UniqueViolation_noindex(its, pend, pid, vid) == FALSE

\* the unique index idx_youtube_item_video_id (youtube_video_id, playlist_id),
\* checked at flush against the committed rows and the rows of this session
UniqueViolation(its, pend, pid, vid) ==
    \/ \E i \in DOMAIN its : its[i].playlist_id = pid /\ its[i].youtube_video_id = vid
    \/ \E i \in DOMAIN pend : pend[i].playlist_id = pid /\ pend[i].youtube_video_id = vid

\* media type and metadata of the job queued for a new item
job_media_type(pl) == IF pl.download_type = AUDIO THEN MUSIC ELSE MOVIE
job_metadata(pl, item) ==
    IF pl.download_type = AUDIO
    THEN [artist |-> item.artist, album |-> pl.title, track |-> item.title]
    ELSE [title |-> item.title]

\* pydantic validation of the metadata model: MusicMetadata.artist is a str
ValidMetadata(mt, md) == mt = MUSIC => md.artist # None

WatchUrl(vid) == "https://www.youtube.com/watch?v=" \o vid

Merge(f, g) == [k \in DOMAIN f \cup DOMAIN g |-> IF k \in DOMAIN g THEN g[k] ELSE f[k]]
FreshItemId(its, pend) ==
    CHOOSE i \in ItemIds \ (DOMAIN its \cup DOMAIN pend) :
        \A k \in ItemIds \ (DOMAIN its \cup DOMAIN pend) : i <= k
FreshJobId(js) ==
    CHOOSE i \in JobIds \ DOMAIN js : \A k \in JobIds \ DOMAIN js : i <= k

\* the "for item in new_items" loop from item i on.  acc holds the rows added
\* to the session (pend), the downloads table and the clock; add_job commits
\* each job in a session of its own.  failAt is the index of the item whose
\* add_job raises (a storage error), 0 when none does.
RECURSIVE sync_loop(_, _, _, _, _, _, _)
sync_loop(new, i, pid, pl, its, acc, failAt) ==
    IF i > Len(new) THEN [ok |-> TRUE, pend |-> acc.pend, jobs |-> acc.jobs, now |-> acc.now]
    ELSE LET item == new[i]
             failed == [ok |-> FALSE, pend |-> acc.pend, jobs |-> acc.jobs, now |-> acc.now]
             mt == job_media_type(pl)
             md == job_metadata(pl, item)
         IN IF UniqueViolation(its, acc.pend, pid, item.video_id) THEN failed
            ELSE IF ~ValidMetadata(mt, md) THEN failed
            ELSE IF i = failAt THEN failed
            ELSE LET iid == FreshItemId(its, acc.pend)
                     jid == FreshJobId(acc.jobs)
                     row == [PlaylistItemRow(pid, item) EXCEPT
                                !.download_id = jid, !.download_status = ITEM_PENDING]
                 IN sync_loop(new, i + 1, pid, pl, its,
                              [pend |-> Merge(acc.pend, (iid :> row)),
                               jobs |-> add_job(acc.jobs, jid, WatchUrl(item.video_id),
                                                mt, md, acc.now),
                               now |-> acc.now + 1],
                              failAt)

\* the function returns without session.commit(): closing the session drops its rows
session_commit_lost(its, pend) == its

\* a mirroring sync: the table is replaced by the rows of the session
session_commit_mirror(its, pend) == pend

\* session.commit(): the rows of the session become rows of the table
session_commit(its, pend) == Merge(its, pend)

\* POST /youtube/playlists: the playlist row (the url, unique, is what the id
\* stands for)
AddPlaylist(pid, dtype) ==
    /\ pid \in PlaylistIds \ DOMAIN playlists
    /\ \A q \in PlaylistIds : q < pid => q \in DOMAIN playlists
    /\ playlists' = Merge(playlists,
                          (pid :> [title |-> PlaylistTitle, download_type |-> dtype,
                                   last_synced_at |-> NoTime]))
    /\ UNCHANGED <<jobs, now, qvars, items, spc, sp, last_extracted, synced, obs, avars>>

\* sync_playlist_items(pid) up to the await of extract_playlist_items; the
\* tasks are numbered in the order in which they are created
SyncBegin(s, pid) ==
    /\ spc[s] = "new"
    /\ \A u \in SyncTasks : u < s => spc[u] # "new"
    /\ pid \in PlaylistIds
    /\ IF pid \in DOMAIN playlists
       THEN /\ sp' = [sp EXCEPT ![s] = pid]
            /\ spc' = [spc EXCEPT ![s] = "extract"]
       ELSE /\ spc' = [spc EXCEPT ![s] = "done"]
            /\ UNCHANGED sp
    /\ UNCHANGED <<jobs, now, qvars, playlists, items, last_extracted, synced, obs, avars>>

\* an except block that stamps the playlist before it raises again
ExtractFail_stamps(s) ==
    /\ spc[s] = "extract"
    /\ last_extracted' = [pid |-> sp[s], ok |-> FALSE, unchanged |-> FALSE]
    /\ spc' = [spc EXCEPT ![s] = "failed"]
    /\ sp' = [sp EXCEPT ![s] = NoPlaylist]
    /\ playlists' = [playlists EXCEPT ![sp[s]].last_synced_at = now]
    /\ UNCHANGED <<jobs, now, qvars, items, synced, obs, avars>>

\* extract_playlist_items raises: rollback of an empty session, re-raise
ExtractFail(s) ==
    /\ spc[s] = "extract"
    /\ last_extracted' = [pid |-> sp[s], ok |-> FALSE, unchanged |-> FALSE]
    /\ spc' = [spc EXCEPT ![s] = "failed"]
    /\ sp' = [sp EXCEPT ![s] = NoPlaylist]
    /\ UNCHANGED <<jobs, now, qvars, playlists, items, synced, obs, avars>>

\* new_items as _sync_single_playlist computes them when extract_playlist_items
\* returned raw for playlist pid
new_items_of(pid, raw) ==
    new_items(extract_playlist_items(raw), existing_video_ids(items, pid))

\* outcome of the "for item in new_items" loop
reconcile(pid, raw, failAt) ==
    sync_loop(new_items_of(pid, raw), 1, pid, playlists[pid], items,
              [pend |-> <<>>, jobs |-> jobs, now |-> now], failAt)

\* the part of _sync_single_playlist after extract_playlist_items returned: it
\* has no await and runs as one step.  When the loop went through, the session
\* is committed with last_synced_at; otherwise it is rolled back and the
\* exception is raised again.
Reconcile(pid, raw, failAt) ==
    LET new == new_items_of(pid, raw)
        r == reconcile(pid, raw, failAt)
    IN  /\ failAt <= Len(new)
        /\ Len(new) <= Cardinality(JobIds \ DOMAIN jobs)
        /\ jobs' = r.jobs
        /\ IF r.ok
           THEN /\ items' = session_commit(items, r.pend)
                /\ playlists' = [playlists EXCEPT ![pid].last_synced_at = r.now]
           ELSE UNCHANGED <<items, playlists>>
        /\ now' = r.now

\* whether creating the rows for new[i] fails by itself: the playlist item
\* (its video is already in this run's session), the metadata of its job, or
\* the database when the job is added
item_fails(new, i, pl, failAt) ==
    \/ \E j \in 1..(i - 1) : new[j].video_id = new[i].video_id
    \/ ~ValidMetadata(job_media_type(pl), job_metadata(pl, new[i]))
    \/ i = failAt

\* what the run just made leaves in the history variables
Observe(pid, raw, failAt) ==
    LET yt == extract_playlist_items(raw)
    IN  /\ last_extracted' =
               [pid |-> pid, ok |-> TRUE,
                unchanged |-> synced[pid] = [done |-> TRUE, list |-> yt]]
        /\ synced' = IF reconcile(pid, raw, failAt).ok
                     THEN [synced EXCEPT ![pid] = [done |-> TRUE, list |-> yt]]
                     ELSE synced

\* what the item loop of the run just made leaves in obs
ObserveLoop(pid, raw, failAt) ==
    LET new == new_items_of(pid, raw)
    IN  obs' = [fresh |-> {new[i].video_id : i \in 1..Len(new)},
                twice |-> {new[i].video_id :
                             i \in {k \in 1..Len(new) :
                                       \E m \in 1..Len(new) :
                                           m # k /\ new[m].video_id = new[k].video_id}},
                sound |-> {new[i].video_id :
                             i \in {k \in 1..Len(new) :
                                       ~item_fails(new, k, playlists[pid], failAt)}},
                db_error |-> failAt # 0]

\* the rest of _sync_single_playlist in a sync_playlist_items() task
SyncRest(s, raw, failAt) ==
    /\ spc[s] = "extract"
    /\ Reconcile(sp[s], raw, failAt)
    /\ spc' = [spc EXCEPT ![s] = IF reconcile(sp[s], raw, failAt).ok
                                 THEN "done" ELSE "failed"]
    /\ sp' = [sp EXCEPT ![s] = NoPlaylist]
    /\ UNCHANGED <<qvars, avars>>

\* extract_playlist_items returns to a sync_playlist_items() task
ExtractReturn(s, raw, failAt) ==
    /\ SyncRest(s, raw, failAt)
    /\ Observe(sp[s], raw, failAt)
    /\ UNCHANGED obs

\* the same step, with the item loop recorded in obs
ExtractReturnObserved(s, raw, failAt) ==
    /\ SyncRest(s, raw, failAt)
    /\ Observe(sp[s], raw, failAt)
    /\ ObserveLoop(sp[s], raw, failAt)

\* the same step, with nothing recorded in the history variables
ExtractReturnUnobserved(s, raw, failAt) ==
    /\ SyncRest(s, raw, failAt)
    /\ UNCHANGED <<last_extracted, synced, obs>>

NextSync ==
    \/ \E pid \in PlaylistIds, dtype \in DownloadType : AddPlaylist(pid, dtype)
    \/ \E s \in SyncTasks, pid \in PlaylistIds : SyncBegin(s, pid)
    \/ \E s \in SyncTasks : ExtractFail(s)
    \/ \E s \in SyncTasks, raw \in RawLists, failAt \in 0..MaxEntries :
            ExtractReturn(s, raw, failAt)

SpecSync == Init /\ [][NextSync]_vars

\* the syncs of single playlists, with the item loop of every run recorded
NextSyncObserved ==
    \/ \E pid \in PlaylistIds, dtype \in DownloadType : AddPlaylist(pid, dtype)
    \/ \E s \in SyncTasks, pid \in PlaylistIds : SyncBegin(s, pid)
    \/ \E s \in SyncTasks : ExtractFail(s)
    \/ \E s \in SyncTasks, raw \in RawLists, failAt \in 0..MaxEntries :
            ExtractReturnObserved(s, raw, failAt)

SpecSyncObserved == Init /\ [][NextSyncObserved]_vars

(* ------------------------------ cloud sync ------------------------------ *)
\* "if _sync_in_progress" of run_sync
SyncInProgress(flag) == flag

\* POST /run: 409 while the flag is set, 400 when rclone is not configured,
\* otherwise do_sync is added as a background task; the requests are numbered
\* in the order in which they arrive
RunSync(r, resync, configured) ==
    /\ rpc[r].at = "new"
    /\ \A u \in RunTasks : u < r => rpc[u].at # "new"
    /\ rpc' = [rpc EXCEPT ![r] =
                 IF SyncInProgress(sync_in_progress) THEN [at |-> "conflict", resync |-> FALSE]
                 ELSE IF ~configured THEN [at |-> "unconfigured", resync |-> FALSE]
                 ELSE [at |-> "queued", resync |-> resync]]
    /\ UNCHANGED <<jobs, now, processing, current_job_id, pc, job, ret, fault, lifespan,
                   sync_in_progress, svars>>

\* do_sync starts after the response was sent: the flag is set and run_bisync
\* runs up to the await of the rclone process
DoSyncStart(r) ==
    /\ rpc[r].at = "queued"
    /\ sync_in_progress' = TRUE
    /\ rpc' = [rpc EXCEPT ![r].at = "running"]
    /\ UNCHANGED <<jobs, now, processing, current_job_id, pc, job, ret, fault, lifespan,
                   svars>>

\* run_bisync returns or raises: the finally block of do_sync clears the flag
DoSyncEnd(r) ==
    /\ rpc[r].at = "running"
    /\ sync_in_progress' = FALSE
    /\ rpc' = [rpc EXCEPT ![r].at = "ended"]
    /\ UNCHANGED <<jobs, now, processing, current_job_id, pc, job, ret, fault, lifespan,
                   svars>>

NextRun ==
    \/ \E r \in RunTasks, resync \in BOOLEAN, configured \in BOOLEAN :
            RunSync(r, resync, configured)
    \/ \E r \in RunTasks : DoSyncStart(r)
    \/ \E r \in RunTasks : DoSyncEnd(r)

SpecRun == Init /\ [][NextRun]_vars

(* --------------------------- overlapping syncs -------------------------- *)
\* the extractor returns to a sync_playlist_items() task after every task has
\* been started: the runs of the tasks overlap
OverlappedReturn(s, raw, failAt) ==
    /\ \A u \in SyncTasks : spc[u] # "new"
    /\ ExtractReturnUnobserved(s, raw, failAt)

\* POST /playlists/{playlist_id}/sync requests whose background tasks all
\* wait for the extractor at the same time
NextOverlap ==
    \/ \E pid \in PlaylistIds, dtype \in DownloadType : AddPlaylist(pid, dtype)
    \/ \E s \in SyncTasks, pid \in PlaylistIds : SyncBegin(s, pid)
    \/ \E s \in SyncTasks, raw \in RawLists, failAt \in 0..MaxEntries :
            OverlappedReturn(s, raw, failAt)

SpecOverlap == Init /\ [][NextOverlap]_vars

(* --------------------------- playlist deletion -------------------------- *)
\* a relationship without the cascade: the rows of the playlist stay
delete_orphan_none(its, pid) == its

\* cascade="all, delete-orphan" of YouTubePlaylist.items: the rows of the
\* playlist are deleted with it
delete_orphan(its, pid) ==
    [i \in {k \in DOMAIN its : its[k].playlist_id # pid} |-> its[i]]

\* DELETE /playlists/{playlist_id}: 404 when there is no such playlist,
\* otherwise session.delete(playlist) and commit.  The request is made while
\* no sync of this playlist is waiting for the extractor.
DeletePlaylist(pid) ==
    /\ pid \in DOMAIN playlists
    /\ \A s \in SyncTasks : sp[s] # pid
    /\ playlists' = [q \in DOMAIN playlists \ {pid} |-> playlists[q]]
    /\ items' = delete_orphan(items, pid)
    /\ UNCHANGED <<jobs, now, qvars, spc, sp, last_extracted, synced, obs, avars>>

\* playlists are added, synced one by one and deleted
NextDelete ==
    \/ \E pid \in PlaylistIds, dtype \in DownloadType : AddPlaylist(pid, dtype)
    \/ \E s \in SyncTasks, pid \in PlaylistIds : SyncBegin(s, pid)
    \/ \E s \in SyncTasks, raw \in RawLists, failAt \in 0..MaxEntries :
            ExtractReturnUnobserved(s, raw, failAt)
    \/ \E pid \in PlaylistIds : DeletePlaylist(pid)

SpecDelete == Init /\ [][NextDelete]_vars

(* ------------------------ sync of all playlists ------------------------- *)
\* session.scalars(select(YouTubePlaylist)).all(): the playlist ids in the
\* order in which the rows were inserted
all_playlists(pls) ==
    CHOOSE f \in [1..Cardinality(DOMAIN pls) -> DOMAIN pls] :
        \A i, j \in 1..Cardinality(DOMAIN pls) : i < j => f[i] < f[j]

\* a test of the flag that never finds a sync running
SyncAlreadyRunning_unchecked(st) == FALSE

\* "if self.is_running" of sync_all_playlists and
\* "if youtube_sync_simple.is_running" of the route
SyncAlreadyRunning(st) == st.is_running

\* a finally block that clears the flag only
finally_reset_flag_only(st) == [st EXCEPT !.is_running = FALSE]

\* the finally block of sync_all_playlists
finally_reset(st) ==
    [st EXCEPT !.is_running = FALSE, !.current_playlist_id = NoPlaylist,
               !.current_playlist_title = None]

\* _sync_single_playlist(pid) on the global instance, up to its await
begin_playlist(st, pid) ==
    [st EXCEPT !.current_playlist_id = pid,
               !.current_playlist_title = playlists[pid].title]

\* POST /sync/all: 400 when a sync is running or the cookies file is missing,
\* otherwise the background task is added
SyncAllRequest(a, cookies) ==
    /\ apc[a] = "new"
    /\ \A u \in AllTasks : u < a => apc[u] # "new"
    /\ IF SyncAlreadyRunning(youtube_sync_simple) \/ ~cookies
       THEN /\ apc' = [apc EXCEPT ![a] = "ended"]
            /\ aret' = [a |-> a, out |-> "rejected"]
       ELSE /\ apc' = [apc EXCEPT ![a] = "queued"]
            /\ UNCHANGED aret
    /\ UNCHANGED <<jobs, now, qvars, playlists, items, spc, sp, last_extracted, synced, obs,
                   youtube_sync_simple, aq>>

\* "for playlist in playlists" of sync_all_playlists, entered with the
\* playlists q still to do: the next playlist up to its await, or the end of
\* the loop and the finally block
SyncAllLoop(a, st, q) ==
    IF q = <<>>
    THEN /\ youtube_sync_simple' = finally_reset(st)
         /\ apc' = [apc EXCEPT ![a] = "ended"]
         /\ aq' = [aq EXCEPT ![a] = <<>>]
         /\ aret' = [a |-> a, out |-> "done"]
    ELSE /\ youtube_sync_simple' = begin_playlist(st, Head(q))
         /\ apc' = [apc EXCEPT ![a] = "extract"]
         /\ aq' = [aq EXCEPT ![a] = q]
         /\ UNCHANGED aret

\* an exception ends sync_all_playlists: except block, then finally block
SyncAllAbort(a) ==
    /\ youtube_sync_simple' = finally_reset(youtube_sync_simple)
    /\ apc' = [apc EXCEPT ![a] = "ended"]
    /\ aq' = [aq EXCEPT ![a] = <<>>]
    /\ aret' = [a |-> a, out |-> "failed"]

\* the background task runs sync_all_playlists up to its first await
SyncAllStart(a, cookies) ==
    /\ apc[a] = "queued"
    /\ IF SyncAlreadyRunning(youtube_sync_simple) \/ ~cookies
       THEN /\ apc' = [apc EXCEPT ![a] = "ended"]
            /\ aret' = [a |-> a, out |-> "skipped"]
            /\ UNCHANGED <<youtube_sync_simple, aq>>
       ELSE SyncAllLoop(a, [youtube_sync_simple EXCEPT !.is_running = TRUE],
                        all_playlists(playlists))
    /\ UNCHANGED <<jobs, now, qvars, playlists, items, spc, sp, last_extracted, synced, obs>>

\* extract_playlist_items raises inside sync_all_playlists
SyncAllExtractFail(a) ==
    /\ apc[a] = "extract"
    /\ SyncAllAbort(a)
    /\ UNCHANGED <<jobs, now, qvars, playlists, items, spc, sp, last_extracted, synced, obs>>

\* extract_playlist_items returns inside sync_all_playlists: the rest of
\* _sync_single_playlist, then the next playlist or the end
SyncAllExtractReturn(a, raw, failAt) ==
    /\ apc[a] = "extract"
    /\ Reconcile(Head(aq[a]), raw, failAt)
    /\ IF reconcile(Head(aq[a]), raw, failAt).ok
       THEN SyncAllLoop(a, youtube_sync_simple, Tail(aq[a]))
       ELSE SyncAllAbort(a)
    /\ UNCHANGED <<qvars, spc, sp, last_extracted, synced, obs>>

NextSyncAll ==
    \/ \E pid \in PlaylistIds, dtype \in DownloadType : AddPlaylist(pid, dtype)
    \/ \E a \in AllTasks, cookies \in BOOLEAN : SyncAllRequest(a, cookies)
    \/ \E a \in AllTasks, cookies \in BOOLEAN : SyncAllStart(a, cookies)
    \/ \E a \in AllTasks : SyncAllExtractFail(a)
    \/ \E a \in AllTasks, raw \in RawLists, failAt \in 0..MaxEntries :
            SyncAllExtractReturn(a, raw, failAt)

SpecSyncAll == Init /\ [][NextSyncAll]_vars

(* ------------------------- fair specification --------------------------- *)
\* The event loop resumes every coroutine that is ready, and the external
\* downloader process ends (returns or fails).
Fairness ==
    \A t \in Tasks :
        /\ WF_vars(StartWorker(t))
        /\ WF_vars(WorkerPoll(t))
        /\ WF_vars(WorkerWake(t))
        /\ WF_vars(\E path \in OutPaths : DownloadReturn(t, path))
        /\ WF_vars(\E msg \in ErrMsgs : DownloadRaise(t, msg))

SpecLive == Init /\ [][Next]_vars /\ Fairness

\* playlists are synced and the worker downloads the jobs the syncs queue
NextItems ==
    \/ \E pid \in PlaylistIds, dtype \in DownloadType : AddPlaylist(pid, dtype)
    \/ \E s \in SyncTasks, pid \in PlaylistIds : SyncBegin(s, pid)
    \/ \E s \in SyncTasks, raw \in RawLists, failAt \in 0..MaxEntries :
            ExtractReturnUnobserved(s, raw, failAt)
    \/ \E t \in Tasks : StartWorker(t)
    \/ \E t \in Tasks : WorkerPoll(t)
    \/ \E t \in Tasks : WorkerWake(t)
    \/ \E t \in Tasks, p \in LinePcts : DownloadProgress(t, p)
    \/ \E t \in Tasks, path \in OutPaths : DownloadReturn(t, path)
    \/ \E t \in Tasks, msg \in ErrMsgs : DownloadRaise(t, msg)

SpecItemsLive == Init /\ [][NextItems]_vars /\ Fairness

(* ------------------------------ claims --------------------------------- *)
Terminal == {COMPLETED, FAILED, CANCELLED}
ActiveIds == {k \in DOMAIN jobs : jobs[k].status \in {DOWNLOADING, ANALYZING}}

\* C1: in every reachable state at most one job is Downloading or Analyzing.
AtMostOneActive == Cardinality(ActiveIds) <= 1

\* a job is Downloading, another is Pending, and a second start_worker call
\* has been made and has returned
W_AtMostOneActive ==
    /\ \E k \in DOMAIN jobs : jobs[k].status = DOWNLOADING
    /\ \E k \in DOMAIN jobs : jobs[k].status = PENDING
    /\ \E t \in Tasks : pc[t] = "returned"

\* C2: a job whose status is Completed, Failed or Cancelled keeps that status
\* in every later step.
StatusMonotone ==
    [][\A k \in DOMAIN jobs :
         jobs[k].status \in Terminal =>
            k \in DOMAIN jobs' /\ jobs'[k].status = jobs[k].status]_vars

\* C3: whenever a job goes from Pending to Downloading, no Pending job has a
\* smaller created_at.
FIFOOrder ==
    [][\A k \in DOMAIN jobs :
         (jobs[k].status = PENDING /\ jobs'[k].status = DOWNLOADING) =>
            \A m \in DOMAIN jobs :
                jobs[m].status = PENDING => jobs[k].created_at <= jobs[m].created_at]_vars

\* the worker started the older job although the newer one has the smaller id
W_FIFOOrder ==
    \E k, m \in DOMAIN jobs :
        /\ jobs[k].status = DOWNLOADING
        /\ jobs[m].status = PENDING
        /\ jobs[k].created_at < jobs[m].created_at
        /\ m < k

\* C6: the stored progress is always within [0, 100], and while a job stays
\* Downloading its progress never decreases.
ProgressBoundedMonotone ==
    /\ [](\A k \in DOMAIN jobs : jobs[k].progress >= 0 /\ jobs[k].progress <= 100)
    /\ [][\A k \in DOMAIN jobs :
            (jobs[k].status = DOWNLOADING /\ jobs'[k].status = DOWNLOADING) =>
                jobs'[k].progress >= jobs[k].progress]_vars

\* C7: a cancel_job call on an existing job returns false and changes nothing
\* when the job is Completed or Cancelled; otherwise it returns true and sets
\* only that job's status, to Cancelled.
CancelContract ==
    [][(ret'.op = "cancel_job" /\ (ret' # ret \/ jobs' # jobs)) =>
         (ret'.id \in DOMAIN jobs =>
            IF jobs[ret'.id].status \in {COMPLETED, CANCELLED}
            THEN ret'.val = FALSE /\ jobs' = jobs
            ELSE /\ ret'.val = TRUE
                 /\ jobs' = [jobs EXCEPT ![ret'.id].status = CANCELLED])]_vars

\* a job cancelled while Pending, and a second cancel of it returned false
W_CancelContract ==
    \E k \in DOMAIN jobs :
        /\ jobs[k].status = CANCELLED
        /\ jobs[k].started_at = None
        /\ ret = [op |-> "cancel_job", id |-> k, val |-> FALSE]

\* C8: error is set if and only if the status is Failed.
ErrorIffFailed ==
    \A k \in DOMAIN jobs : (jobs[k].error # None) <=> (jobs[k].status = FAILED)

\* C9: output_path is set if and only if the status is Completed.
OutputIffCompleted ==
    \A k \in DOMAIN jobs :
        (jobs[k].output_path # None) <=> (jobs[k].status = COMPLETED)

\* a Completed job with its output path, on which a cancel was just refused
W_OutputIffCompleted ==
    \E k \in DOMAIN jobs :
        /\ jobs[k].status = COMPLETED
        /\ jobs[k].output_path \in OutPaths
        /\ ret = [op |-> "cancel_job", id |-> k, val |-> FALSE]

\* C10: once some job is Failed, every Pending job is eventually started by
\* the worker (or cancelled by the user); the loop did not end with the failure.
WorkerSurvivesFailure ==
    \A k \in JobIds :
        (/\ k \in DOMAIN jobs
         /\ jobs[k].status = PENDING
         /\ \E m \in DOMAIN jobs : jobs[m].status = FAILED)
        ~> (k \in DOMAIN jobs /\ jobs[k].status # PENDING)

\* a job created after the Failed one is being downloaded
W_WorkerSurvivesFailure ==
    \E k, m \in DOMAIN jobs :
        /\ jobs[m].status = FAILED
        /\ jobs[k].status = DOWNLOADING
        /\ jobs[k].created_at > jobs[m].created_at

\* C4: when the extractor returns, for a playlist whose latest sync committed,
\* the same item list as in that sync, the run creates no playlist item and no job.
IdempotentSync ==
    [][((\E s \in SyncTasks : spc[s] = "extract" /\ spc'[s] # "extract")
        /\ last_extracted'.ok /\ last_extracted'.unchanged) =>
            (DOMAIN items' = DOMAIN items /\ DOMAIN jobs' = DOMAIN jobs)]_vars

\* a second run saw the unchanged list of a playlist for which an earlier run
\* had created an item and its job
W_IdempotentSync ==
    /\ last_extracted.ok /\ last_extracted.unchanged
    /\ \E i \in DOMAIN items :
          /\ items[i].playlist_id = last_extracted.pid
          /\ items[i].download_id \in DOMAIN jobs

\* C5: no step removes a playlist item or changes which playlist and video it
\* stands for.
AddOnly ==
    [][\A i \in DOMAIN items :
         /\ i \in DOMAIN items'
         /\ items'[i].playlist_id = items[i].playlist_id
         /\ items'[i].youtube_video_id = items[i].youtube_video_id]_vars

\* an item is still there after a committed sync of its playlist whose
\* extracted list did not contain the item's video
W_AddOnly ==
    \E i \in DOMAIN items :
        LET l == synced[items[i].playlist_id] IN
        /\ l.done
        /\ last_extracted.pid = items[i].playlist_id
        /\ \A k \in 1..Len(l.list) : l.list[k].video_id # items[i].youtube_video_id

\* C11: the step in which a single update_job or get_next_pending call of the
\* worker raises a database error does not end the worker loop: a coroutine
\* that was in the loop is still in it afterwards.
StorageErrorKeepsLoop ==
    [][(fault' /\ ~fault) =>
         \A t \in Tasks :
            pc[t] \in {"loop", "sleep", "download"} =>
                pc'[t] \in {"loop", "sleep", "download"}]_vars

\* C12: after the shutdown (stop_worker, then cancellation of the worker task)
\* no job is left in status Downloading: the job that was in flight has ended
\* Completed, Failed or Cancelled.
ShutdownSettlesJob ==
    lifespan = "down" => \A k \in DOMAIN jobs : jobs[k].status # DOWNLOADING

\* C13: when the download of a job that was not cancelled meanwhile returns
\* path P, the job was Downloading (started by the worker) and is Completed
\* with output_path = P and progress = 100 afterwards.
DownloadSuccessRecorded ==
    [][\A t \in Tasks :
         (/\ pc[t] = "download" /\ pc'[t] # "download"
          /\ ret'.op = "download" /\ ret'.id = job[t]
          /\ jobs[job[t]].status # CANCELLED) =>
            /\ jobs[job[t]].status = DOWNLOADING
            /\ jobs[job[t]].started_at # None
            /\ jobs'[job[t]].status = COMPLETED
            /\ jobs'[job[t]].output_path = ret'.val
            /\ jobs'[job[t]].progress = 100]_vars

\* a download has just returned, its job is Completed with the returned path,
\* and another job is waiting
W_DownloadSuccessRecorded ==
    /\ ret.op = "download"
    /\ ret.val \in OutPaths
    /\ jobs[ret.id].status = COMPLETED
    /\ jobs[ret.id].output_path = ret.val
    /\ \E k \in DOMAIN jobs : k # ret.id /\ jobs[k].status = PENDING

\* C14: when the download of a job raises an error with message M, the job is
\* Failed with error = M and no output_path afterwards.
DownloadFailureRecorded ==
    [][\A t \in Tasks :
         (/\ pc[t] = "download" /\ pc'[t] # "download"
          /\ ret'.op = "download_error" /\ ret'.id = job[t]) =>
            /\ jobs'[job[t]].status = FAILED
            /\ jobs'[job[t]].error = ret'.val
            /\ jobs'[job[t]].output_path = None]_vars

\* a download has just raised "disk full" after it had reported progress
W_DownloadFailureRecorded ==
    /\ ret.op = "download_error"
    /\ ret.val = "disk full"
    /\ jobs[ret.id].status = FAILED
    /\ jobs[ret.id].progress > 0

\* C15: a step that runs add_job creates exactly one job under an id no job
\* had, leaves the other jobs alone, and get_job on that id right after the
\* step returns the job with status Pending and progress 0.
AddJobThenGet ==
    [][now' # now =>
         \E k \in DOMAIN jobs' \ DOMAIN jobs :
            /\ DOMAIN jobs' = DOMAIN jobs \cup {k}
            /\ \A m \in DOMAIN jobs : jobs'[m] = jobs[m]
            /\ get_job(jobs', k).id = k
            /\ get_job(jobs', k).status = PENDING
            /\ get_job(jobs', k).progress = 0]_vars

\* a second job has been added while the first one is downloading with
\* progress reported; get_job returns the new one as Pending with progress 0
W_AddJobThenGet ==
    \E k, m \in DOMAIN jobs :
        /\ jobs[m].status = DOWNLOADING /\ jobs[m].progress > 0
        /\ jobs[k].created_at > jobs[m].created_at
        /\ get_job(jobs, k).status = PENDING
        /\ get_job(jobs, k).progress = 0
        /\ get_job(jobs, k).error = None

\* C16: at most one execution of the body of sync_all_playlists is in progress,
\* and while one is in progress the flag is_running is set.
SingleFlightSyncAll ==
    /\ Cardinality({a \in AllTasks : apc[a] = "extract"}) <= 1
    /\ (\E a \in AllTasks : apc[a] = "extract") => youtube_sync_simple.is_running

\* a request passed the check of the route while no sync was running, and its
\* background task was turned away because another one had started meanwhile
W_SingleFlightSyncAll ==
    /\ \E a \in AllTasks : apc[a] = "extract"
    /\ aret.out = "skipped"
    /\ youtube_sync_simple.is_running

\* C17: a step that ends an execution of sync_all_playlists which had set
\* is_running leaves is_running false and current_playlist_id and
\* current_playlist_title null; a step in which an invocation is turned away
\* leaves the three fields as they are.
SyncAllCleanup ==
    [][\A a \in AllTasks :
         (apc[a] # "ended" /\ apc'[a] = "ended") =>
            IF aret'.out \in {"done", "failed"}
            THEN youtube_sync_simple' = IdleSync
            ELSE youtube_sync_simple' = youtube_sync_simple]_vars

\* an execution has just ended because a playlist sync raised, after another
\* one had ended; the fields are reset
W_SyncAllCleanup ==
    /\ aret.out = "failed"
    /\ \E b \in AllTasks : b # aret.a /\ apc[b] = "ended"
    /\ youtube_sync_simple = IdleSync

\* C18: when extract_playlist_items fails, the sync ends with an error and the
\* playlists (with last_synced_at), the playlist items and the jobs are as
\* they were.
ExtractFailureNoEffect ==
    [][\A s \in SyncTasks :
         (spc[s] = "extract" /\ spc'[s] # "extract" /\ ~last_extracted'.ok) =>
            /\ spc'[s] = "failed"
            /\ playlists' = playlists
            /\ items' = items
            /\ jobs' = jobs]_vars

\* the extractor has just failed for a playlist that an earlier sync had
\* stamped and filled
W_ExtractFailureNoEffect ==
    /\ last_extracted.pid # NoPlaylist
    /\ ~last_extracted.ok
    /\ \E s \in SyncTasks : spc[s] = "failed"
    /\ playlists[last_extracted.pid].last_synced_at # NoTime
    /\ \E i \in DOMAIN items : items[i].playlist_id = last_extracted.pid

\* C19: after a run in which the extractor returned, every new remote item
\* whose own rows could be created has its playlist item, linked to its job,
\* in the tables, also when the rows of another new item could not be created.
OtherItemsPersisted ==
    [][\A s \in SyncTasks :
         (spc[s] = "extract" /\ spc'[s] # "extract" /\ last_extracted'.ok) =>
            \A v \in obs'.sound :
                \E i \in DOMAIN items' :
                    /\ items'[i].playlist_id = sp[s]
                    /\ items'[i].youtube_video_id = v
                    /\ items'[i].download_id \in DOMAIN jobs']_vars

\* C20: a successful sync sets the position of every item that was already in
\* the table to the position its video has in the extracted list (when the
\* video is there once) and changes nothing else of that item.
PositionFollowsRemote ==
    [][\A s \in SyncTasks :
         (spc[s] = "extract" /\ spc'[s] = "done") =>
            LET l == synced'[sp[s]].list IN
            \A i \in DOMAIN items : \A k \in 1..Len(l) :
                (/\ items[i].playlist_id = sp[s]
                 /\ items[i].youtube_video_id = l[k].video_id
                 /\ \A m \in 1..Len(l) : m # k => l[m].video_id # l[k].video_id) =>
                    items'[i] = [items[i] EXCEPT !.position = l[k].position]]_vars

\* C21: a successful sync creates, for every extracted item whose video had no
\* row in the playlist, exactly one row with that video, the remote position,
\* status pending and a link to a job created by this run and Pending; it
\* creates no row for a video that had one, and no job beyond those linked.
NewItemsCreated ==
    [][\A s \in SyncTasks :
         (spc[s] = "extract" /\ spc'[s] = "done") =>
            LET pid == sp[s]
                l == synced'[pid].list
                old == existing_video_ids(items, pid)
                newRows == DOMAIN items' \ DOMAIN items
                newJobs == DOMAIN jobs' \ DOMAIN jobs
            IN  /\ \A k \in 1..Len(l) :
                      l[k].video_id \notin old =>
                          \E i \in newRows :
                              /\ items'[i].playlist_id = pid
                              /\ items'[i].youtube_video_id = l[k].video_id
                              /\ items'[i].position = l[k].position
                              /\ items'[i].download_status = ITEM_PENDING
                              /\ items'[i].download_id \in newJobs
                              /\ jobs'[items'[i].download_id].status = PENDING
                              /\ \A m \in DOMAIN items' :
                                    (/\ items'[m].playlist_id = pid
                                     /\ items'[m].youtube_video_id = l[k].video_id) => m = i
                /\ \A i \in newRows :
                      items'[i].playlist_id = pid /\ items'[i].youtube_video_id \notin old
                /\ \A i, m \in newRows :
                      i # m => items'[i].download_id # items'[m].download_id
                /\ Cardinality(newJobs) = Cardinality(newRows)]_vars

\* a second sync of a playlist has just created the row and the job of the one
\* video that was new, at remote position 1, next to the row of the first sync
W_NewItemsCreated ==
    /\ last_extracted.ok
    /\ \E i, m \in DOMAIN items :
          /\ items[i].playlist_id = last_extracted.pid
          /\ items[m].playlist_id = last_extracted.pid
          /\ i # m
          /\ items[m].position = 1
          /\ items[m].download_id \in DOMAIN jobs
          /\ jobs[items[m].download_id].created_at > jobs[items[i].download_id].created_at

\* C22: no two playlist items have the same playlist and the same video.
UniqueItems ==
    \A i, m \in DOMAIN items :
        (/\ items[i].playlist_id = items[m].playlist_id
         /\ items[i].youtube_video_id = items[m].youtube_video_id) => i = m

\* a sync of a playlist is waiting for the extractor while another sync of the
\* same playlist, started before it, has committed rows
W_UniqueItems ==
    \E s, u \in SyncTasks :
        /\ u < s
        /\ spc[s] = "extract"
        /\ spc[u] = "done"
        /\ last_extracted.pid = sp[s]
        /\ last_extracted.ok
        /\ \E i \in DOMAIN items : items[i].playlist_id = sp[s]

\* C23: a run in which the extractor returned and the database raised no error
\* leaves, for every new item, with or without artist, a job created by this
\* run for the item's video: of type music with the item's title as track, the
\* playlist title as album and the item's artist (when it has one) for an
\* audio playlist, of type movie with the item's title for a video playlist.
JobKindFollowsPlaylist ==
    [][\A s \in SyncTasks :
         (/\ spc[s] = "extract" /\ spc'[s] # "extract"
          /\ last_extracted'.ok /\ ~obs'.db_error) =>
            LET pl == playlists[sp[s]] IN
            \A e \in RawEntries :
                e.id \in obs'.fresh =>
                    \E j \in DOMAIN jobs' \ DOMAIN jobs :
                        /\ jobs'[j].url = WatchUrl(e.id)
                        /\ IF pl.download_type = AUDIO
                           THEN /\ jobs'[j].media_type = MUSIC
                                /\ jobs'[j].metadata.track = e.title
                                /\ jobs'[j].metadata.album = pl.title
                                /\ e.uploader # None =>
                                      jobs'[j].metadata.artist = e.uploader
                           ELSE /\ jobs'[j].media_type = MOVIE
                                /\ jobs'[j].metadata = [title |-> e.title]]_vars

\* C24: the jobs that one committed sync creates are created in the order of
\* the remote positions of their items: of two new rows the one with the lower
\* position has the job created earlier, and get_next_pending, asked among the
\* jobs of this run, selects the job of the row with the lowest position.
JobsInPositionOrder ==
    [][\A s \in SyncTasks :
         (spc[s] = "extract" /\ spc'[s] = "done") =>
            LET newRows == DOMAIN items' \ DOMAIN items
                newJobs == DOMAIN jobs' \ DOMAIN jobs
                created == [j \in newJobs |-> jobs'[j]]
            IN  /\ \A i, m \in newRows :
                      items'[i].position < items'[m].position =>
                          jobs'[items'[i].download_id].created_at
                              < jobs'[items'[m].download_id].created_at
                /\ newJobs # {} =>
                      \E i \in newRows :
                          /\ items'[i].download_id = get_next_pending(created)
                          /\ \A m \in newRows :
                                items'[i].position <= items'[m].position]_vars

\* the only sync that has run has committed two rows, at positions 0 and 1,
\* with two jobs
W_JobsInPositionOrder ==
    /\ \E s \in SyncTasks :
          spc[s] = "done" /\ \A u \in SyncTasks \ {s} : spc[u] = "new"
    /\ \E i, m \in DOMAIN items :
          /\ items[i].playlist_id = items[m].playlist_id
          /\ items[i].position = 0
          /\ items[m].position = 1
          /\ items[i].download_id # items[m].download_id
          /\ {items[i].download_id, items[m].download_id} \subseteq DOMAIN jobs

\* C25: at most one worker loop is executing at any time, whatever the order
\* of the start_worker and stop_worker calls: a start_worker call made while a
\* loop started earlier has not yet exited starts no second loop.
AtMostOneLoop ==
    Cardinality({t \in Tasks : pc[t] \in {"loop", "sleep", "download"}}) <= 1

\* C26: no job is retried: the worker hands a job to the downloader only when
\* its status is Pending, the job has left Pending when the download starts,
\* and a job that is not Pending never becomes Pending again.
NoRetry ==
    [][/\ \A t \in Tasks :
             (pc[t] # "download" /\ pc'[t] = "download") =>
                 /\ job'[t] \in DOMAIN jobs
                 /\ jobs[job'[t]].status = PENDING
                 /\ jobs'[job'[t]].status # PENDING
       /\ \A k \in DOMAIN jobs :
             jobs[k].status # PENDING =>
                 k \in DOMAIN jobs' /\ jobs'[k].status # PENDING]_vars

\* a download has failed and the worker, having looked for a pending job
\* since, sleeps
W_NoRetry ==
    /\ \E k \in DOMAIN jobs : jobs[k].status = FAILED
    /\ \A k \in DOMAIN jobs : jobs[k].status # PENDING
    /\ \E t \in Tasks : pc[t] = "sleep"

\* C27: deleting a playlist deletes exactly the playlist items of that
\* playlist; every job, linked or not, every item of another playlist and
\* every other playlist stay as they were.
DeleteCascade ==
    [][\A pid \in DOMAIN playlists :
         pid \notin DOMAIN playlists' =>
            /\ DOMAIN items' = {i \in DOMAIN items : items[i].playlist_id # pid}
            /\ \A i \in DOMAIN items' : items'[i] = items[i]
            /\ jobs' = jobs
            /\ DOMAIN playlists' = DOMAIN playlists \ {pid}
            /\ \A q \in DOMAIN playlists' : playlists'[q] = playlists[q]]_vars

\* the first playlist has been deleted after a sync that committed: its job
\* is still in the table, linked by no item, next to the second playlist, its
\* item and the job of that item
W_DeleteCascade ==
    /\ 1 \notin DOMAIN playlists
    /\ 2 \in DOMAIN playlists
    /\ \A s \in SyncTasks : spc[s] = "done"
    /\ \E i \in DOMAIN items :
          items[i].playlist_id = 2 /\ items[i].download_id \in DOMAIN jobs
    /\ \E j \in DOMAIN jobs : \A i \in DOMAIN items : items[i].download_id # j

\* C28: update_job with an id that has no row changes nothing: when the worker
\* records the end of a download whose job has been deleted meanwhile, no row
\* is created and every row stays as it was; and so for every id without a
\* row and every status and progress it could be called with.
UpdateAbsentJobNoEffect ==
    [][/\ \A t \in Tasks :
             (/\ pc[t] = "download"
              /\ job[t] \notin DOMAIN jobs
              /\ pc'[t] # "download") => jobs' = jobs
       /\ \A id \in JobIds \ DOMAIN jobs, st \in DownloadStatus \cup {None},
             p \in LinePcts \cup {NoProgress} :
                update_job(jobs, id, st, p, None, None) = jobs]_vars

\* a download has ended and the worker has recorded its end for a job that
\* had been deleted, while another job is in the table
W_UpdateAbsentJobNoEffect ==
    /\ ret.op \in {"download", "download_error"}
    /\ ret.id \notin DOMAIN jobs
    /\ jobs # <<>>

\* C29: a job keeps its id, its url and its media type for as long as it is in
\* the table, whatever is done to it.
JobIdentityFixed ==
    [][\A k \in DOMAIN jobs :
         /\ k \in DOMAIN jobs'
         /\ jobs'[k].url = jobs[k].url
         /\ jobs'[k].media_type = jobs[k].media_type]_vars

\* a job added through the API has been started, has reported progress and
\* has completed, and still has the url and media type it was added with
W_JobIdentityFixed ==
    \E k \in DOMAIN jobs :
        /\ jobs[k].status = COMPLETED
        /\ jobs[k].started_at = "set"
        /\ jobs[k].url \in ApiUrls
        /\ jobs[k].media_type \in ApiMediaTypes

\* C30: every change of a job's status is Pending to Downloading, Downloading
\* to Completed, Downloading to Failed, Pending to Cancelled or Downloading to
\* Cancelled.
AllowedTransitions ==
    {<<PENDING, DOWNLOADING>>, <<DOWNLOADING, COMPLETED>>, <<DOWNLOADING, FAILED>>,
     <<PENDING, CANCELLED>>, <<DOWNLOADING, CANCELLED>>}

OnlyAllowedTransitions ==
    [][\A k \in DOMAIN jobs :
         (k \in DOMAIN jobs' /\ jobs'[k].status # jobs[k].status) =>
             <<jobs[k].status, jobs'[k].status>> \in AllowedTransitions]_vars

\* C31: while the worker loop runs and every download ends, every job that is
\* Pending eventually has a terminal status (Completed, Failed or Cancelled).
PendingReachesTerminal ==
    \A k \in JobIds :
        (k \in DOMAIN jobs /\ jobs[k].status = PENDING)
        ~> (k \in DOMAIN jobs /\ jobs[k].status \in Terminal)

\* every job that was created has been taken by the worker in turn and has
\* ended, the first Completed and a later one Failed; the worker sleeps
W_PendingReachesTerminal ==
    /\ \E k, m \in DOMAIN jobs :
          /\ jobs[k].status = COMPLETED
          /\ jobs[m].status = FAILED
          /\ jobs[k].created_at < jobs[m].created_at
    /\ \A k \in DOMAIN jobs : jobs[k].status \in Terminal
    /\ \E t \in Tasks : pc[t] = "sleep"

\* C32: a job cancelled while Pending is never downloaded: cancel_job that
\* returns True for a Pending job leaves it Cancelled and not started, and a
\* job that is Cancelled and not started stays so in every later step and is
\* never the job the worker begins to download.
CancelledPendingNeverStarts ==
    [][/\ (/\ ret'.op = "cancel_job"
            /\ ret'.val
            /\ jobs[ret'.id].status = PENDING) =>
               /\ jobs'[ret'.id].status = CANCELLED
               /\ jobs'[ret'.id].started_at = None
       /\ \A k \in DOMAIN jobs :
             (jobs[k].status = CANCELLED /\ jobs[k].started_at = None) =>
                 /\ jobs'[k] = jobs[k]
                 /\ \A t \in Tasks :
                       (pc[t] # "download" /\ pc'[t] = "download") => job'[t] # k]_vars

\* the older job was cancelled while Pending and has not been started; the
\* worker has passed it over and downloads the job created after it
W_CancelledPendingNeverStarts ==
    \E k, m \in DOMAIN jobs :
        /\ jobs[k].status = CANCELLED
        /\ jobs[k].started_at = None
        /\ jobs[m].status = DOWNLOADING
        /\ jobs[k].created_at < jobs[m].created_at
        /\ \E t \in Tasks : pc[t] = "download" /\ job[t] = m

\* C33: also after the worker task was cancelled while a job was Downloading
\* and the application was started again, no two jobs are Downloading or
\* Analyzing at the same time.
OneActiveAcrossRestart ==
    \A k, m \in DOMAIN jobs :
        (/\ jobs[k].status \in {DOWNLOADING, ANALYZING}
         /\ jobs[m].status \in {DOWNLOADING, ANALYZING}) => k = m

\* C34: whatever syncs have run, failed ones included, every job created by
\* reconciliation is the download_id of exactly one playlist item in the
\* table, and while there is one playlist no two jobs have the url of the
\* same remote item.
NoOrphanNoDuplicateJobs ==
    /\ \A j \in DOMAIN jobs :
          Cardinality({i \in DOMAIN items : items[i].download_id = j}) = 1
    /\ Cardinality(DOMAIN playlists) <= 1 =>
          \A j, k \in DOMAIN jobs : jobs[j].url = jobs[k].url => j = k

\* C35: syncs of one playlist that overlap leave at most one playlist item
\* per video of the playlist and, the playlist being the only one, at most
\* one job per video.
OverlapOnePerItem ==
    \A pid \in DOMAIN playlists, v \in VideoIds :
        /\ Cardinality({i \in DOMAIN items :
                           /\ items[i].playlist_id = pid
                           /\ items[i].youtube_video_id = v}) <= 1
        /\ DOMAIN playlists = {pid} =>
              Cardinality({j \in DOMAIN jobs : jobs[j].url = WatchUrl(v)}) <= 1

\* C36: when the extractor returns, for a video playlist, a list in which a
\* video that has no row yet occurs at two positions, and the database raises
\* no error, the sync succeeds: the playlist is stamped, and the video has
\* exactly one playlist item and exactly one job created by this run.
DuplicateEntryTolerated ==
    [][\A s \in SyncTasks :
         (/\ spc[s] = "extract" /\ spc'[s] # "extract"
          /\ last_extracted'.ok
          /\ ~obs'.db_error
          /\ playlists[sp[s]].download_type = VIDEO
          /\ obs'.twice # {}) =>
            /\ spc'[s] = "done"
            /\ playlists'[sp[s]].last_synced_at # NoTime
            /\ \A v \in obs'.twice :
                  /\ Cardinality({i \in DOMAIN items' :
                                     /\ items'[i].playlist_id = sp[s]
                                     /\ items'[i].youtube_video_id = v}) = 1
                  /\ Cardinality({j \in DOMAIN jobs' \ DOMAIN jobs :
                                     jobs'[j].url = WatchUrl(v)}) = 1]_vars

\* C37: when the job a playlist item is linked to is Completed, the item's
\* download_status eventually is completed; when the job is Failed, the
\* item's download_status eventually is failed.
ItemFollowsJob ==
    \A i \in ItemIds :
        /\ (/\ i \in DOMAIN items
             /\ items[i].download_id \in DOMAIN jobs
             /\ jobs[items[i].download_id].status = COMPLETED)
            ~> (i \in DOMAIN items /\ items[i].download_status = ITEM_COMPLETED)
        /\ (/\ i \in DOMAIN items
             /\ items[i].download_id \in DOMAIN jobs
             /\ jobs[items[i].download_id].status = FAILED)
            ~> (i \in DOMAIN items /\ items[i].download_status = ITEM_FAILED)

\* C38: a run of sync_all_playlists attempts every playlist that was in the
\* table when it started, also after the sync of one of them failed: the run
\* ends only with the sync of the last playlist of its list.
AllPlaylistsAttempted ==
    [][\A a \in AllTasks :
         (apc[a] = "extract" /\ apc'[a] = "ended") => Tail(aq[a]) = <<>>]_vars

\* C39: at most one do_sync is in progress at a time, and _sync_in_progress
\* is true exactly while one is in progress.
SingleFlightRun ==
    /\ Cardinality({r \in RunTasks : rpc[r].at = "running"}) <= 1
    /\ sync_in_progress <=> \E r \in RunTasks : rpc[r].at = "running"

====
